---- MODULE Spec2Model ----
(***************************************************************************)
(* Model of scripts/direct-linear-cleanup.py: a two-phase batch that        *)
(* resolves the "Canceled" workflow state of team 1M, then for each ticket  *)
(* looks the issue up, sets its state, adds a comment, counts the verdict   *)
(* and sleeps.  Every requests.post call blocks until its reply, so a call  *)
(* and the code that handles its reply form one step.                       *)
(***************************************************************************)
EXTENDS Integers, Sequences, FiniteSets, TLC

\* ---------------------------------------------------------------- bounds
MaxPhase1 == 2
MaxPhase2 == 1
MaxNodes == 2

MaxLines == 3
MaxRuns == 2

\* --------------------------------------------------- program constants
\* Python None (also the value of a local that is not bound yet)
None == 0

TEAM_KEY == "1M"

WORKER_TRACE_TICKETS ==
  <<"1M-610", "1M-611", "1M-612", "1M-613", "1M-614",
    "1M-615", "1M-616", "1M-617", "1M-618", "1M-619",
    "1M-620", "1M-488", "1M-466", "1M-467">>

TRACK_TICKETS == <<"1M-573", "1M-574", "1M-575", "1M-576", "1M-577", "1M-578">>

\* time.sleep(0.5), in tenths of a second
SLEEP_TENTHS == 5

PHASE1_COMMENT == "Archived as test pollution - cleanup operation 2025-12-04"

PHASE2_COMMENT == "Closed as duplicate tracking ticket - cleanup operation 2025-12-04"

VARIABLES
  phase1_tickets,       \* the list the first loop runs over: a prefix of WORKER_TRACE_TICKETS
  phase2_tickets,       \* the list the second loop runs over: a prefix of TRACK_TICKETS
  pc,                   \* position of main()
  phase,                \* which of the two for loops is running
  idx,                  \* 1-based position of the loop in its list
  canceled_state_id,
  issue_id,
  success_count,
  failed_count,
  failed_tickets,
  trace,                \* the requests posted (with their replies) and the sleeps, in order
  canceled_issues,      \* remote: issues whose state this run has changed
  summary,              \* what the Summary printed
  \* fix-null-safety.py, for one of its files
  lines,                \* the lines of the file on disk
  new_lines,
  line_i,               \* the script's i: 0-based index of the while loop
  modified,
  runs,                 \* how many times the script has been run to its end
  ppc                   \* position of the script

cleanup_vars == <<phase1_tickets, phase2_tickets, pc, phase, idx, canceled_state_id,
                  issue_id, success_count, failed_count, failed_tickets, trace,
                  canceled_issues, summary>>

patcher_vars == <<lines, new_lines, line_i, modified, runs, ppc>>

vars == <<cleanup_vars, patcher_vars>>

config == <<phase1_tickets, phase2_tickets>>

counters == <<success_count, failed_count, failed_tickets>>

\* --------------------------------------------------------------- helpers
\* PhaseTickets with the two lists exchanged between the loops
PhaseTickets_Swapped(p) == IF p = 1 THEN phase2_tickets ELSE phase1_tickets

PhaseTickets(p) == IF p = 1 THEN phase1_tickets ELSE phase2_tickets

\* PhaseComment with the first loop's text pasted into the second loop
PhaseComment_Pasted(p) == PHASE1_COMMENT

PhaseComment(p) == IF p = 1 THEN PHASE1_COMMENT ELSE PHASE2_COMMENT

\* the loop variable `ticket`
Ticket == PhaseTickets(phase)[idx]

AllTickets == phase1_tickets \o phase2_tickets

\* ------------------------------------------------------ the remote API
PoolIndex(t) ==
  IF \E i \in 1..Len(WORKER_TRACE_TICKETS) : WORKER_TRACE_TICKETS[i] = t
  THEN CHOOSE i \in 1..Len(WORKER_TRACE_TICKETS) : WORKER_TRACE_TICKETS[i] = t
  ELSE Len(WORKER_TRACE_TICKETS) + (CHOOSE i \in 1..Len(TRACK_TICKETS) : TRACK_TICKETS[i] = t)

\* the tracker's internal id of the issue a ticket reference names
IssueIdOf(t) == Len(WORKER_TRACE_TICKETS) + Len(TRACK_TICKETS) + PoolIndex(t)

\* a reply: JSON with `data`, JSON with `errors`, or no reply (requests raises)
Reply(k, ns, i, s) == [kind |-> k, nodes |-> ns, id |-> i, success |-> s]

ErrorsReply == Reply("errors", <<>>, None, FALSE)

TransportFailure == Reply("throw", <<>>, None, FALSE)

\* the team a "Canceled" workflow state of the tracker belongs to: state 1 is
\* another team's, the others are team 1M's
WorkflowStateTeam(i) == IF i = 1 THEN "ENG" ELSE TEAM_KEY

\* the nodes a reply can carry: id and team.key of a state named "Canceled"
Nodes == { [id |-> i, team |-> WorkflowStateTeam(i)] : i \in 1..MaxNodes }

\* the node lists of a reply: some of the states, each once, in any order
NodeSeqs ==
  { ns \in UNION { [1..n -> Nodes] : n \in 0..MaxNodes } :
      \A i, j \in 1..Len(ns) : i # j => ns[i].id # ns[j].id }

WorkflowStatesReplies ==
  { Reply("data", ns, None, FALSE) : ns \in NodeSeqs } \cup {ErrorsReply, TransportFailure}

IssueReplies(t) == {Reply("data", <<>>, IssueIdOf(t), FALSE), ErrorsReply, TransportFailure}

MutationReplies ==
  {Reply("data", <<>>, None, TRUE), Reply("data", <<>>, None, FALSE), ErrorsReply,
   TransportFailure}

\* an entry of the trace: a request with its variables and its reply, or a sleep
\* with its length
Call(o, t, iid, sid, b, r) ==
  [op |-> o, ticket |-> t, issueId |-> iid, stateId |-> sid, body |-> b, reply |-> r,
   wait |-> 0]

Sleep05 ==
  [Call("sleep", "", None, None, "", Reply("none", <<>>, None, FALSE))
     EXCEPT !.wait = SLEEP_TENTHS]

\* -------------------------------------------------- get_canceled_state_id
RECURSIVE FindTeamState(_, _)
\* the for loop over the nodes: the id of the first node of team 1M, None when
\* the loop falls through to the raise
FindTeamState(nodes, i) ==
  IF i > Len(nodes) THEN None
  ELSE IF nodes[i].team = TEAM_KEY THEN nodes[i].id
  ELSE FindTeamState(nodes, i + 1)

\* get_canceled_state_id trusting the first node of the reply
CanceledStateIdFor_FirstNode(r) ==
  IF r.kind = "data" /\ Len(r.nodes) > 0 THEN r.nodes[1].id ELSE None

\* the value get_canceled_state_id returns for a reply; None when it raises
\* (requests raises, data["data"] is missing, or no node is of team 1M)
CanceledStateIdFor(r) ==
  IF r.kind = "data" THEN FindTeamState(r.nodes, 1) ELSE None

Init ==
  /\ phase1_tickets \in { SubSeq(WORKER_TRACE_TICKETS, 1, n) : n \in 0..MaxPhase1 }
  /\ phase2_tickets \in { SubSeq(TRACK_TICKETS, 1, n) : n \in 0..MaxPhase2 }
  /\ pc = "get_canceled_state_id"
  /\ phase = 1
  /\ idx = 1
  /\ canceled_state_id = None
  /\ issue_id = None
  /\ success_count = 0
  /\ failed_count = 0
  /\ failed_tickets = <<>>
  /\ trace = <<>>
  /\ canceled_issues = {}
  /\ summary = [printed |-> FALSE, success |-> 0, failed |-> 0, tickets |-> <<>>]
  /\ lines = <<>>
  /\ new_lines = <<>>
  /\ line_i = 0
  /\ modified = FALSE
  /\ runs = 0
  /\ ppc = "idle"

\* GetCanceledStateId with the exception swallowed: main goes on without a state id
GetCanceledStateId_Swallows ==
  /\ pc = "get_canceled_state_id"
  /\ \E r \in WorkflowStatesReplies :
       /\ trace' = Append(trace, Call("workflowStates", "", None, None, "", r))
       /\ canceled_state_id' = CanceledStateIdFor(r)
       /\ pc' = "for"
  /\ success_count' = 0
  /\ failed_count' = 0
  /\ failed_tickets' = <<>>
  /\ UNCHANGED <<patcher_vars, config, phase, idx, issue_id, canceled_issues, summary>>

\* main: canceled_state_id = get_canceled_state_id(), then the three counters
GetCanceledStateId ==
  /\ pc = "get_canceled_state_id"
  /\ \E r \in WorkflowStatesReplies :
       /\ trace' = Append(trace, Call("workflowStates", "", None, None, "", r))
       /\ canceled_state_id' = CanceledStateIdFor(r)
       /\ pc' = IF CanceledStateIdFor(r) = None THEN "aborted" ELSE "for"
  /\ success_count' = 0
  /\ failed_count' = 0
  /\ failed_tickets' = <<>>
  /\ UNCHANGED <<patcher_vars, config, phase, idx, issue_id, canceled_issues, summary>>

\* -------------------------------------------------------------- main
\* RecordSuccess with the failure increment pasted in as well
RecordSuccess_CountsFailure ==
  /\ success_count' = success_count + 1
  /\ failed_count' = failed_count + 1
  /\ UNCHANGED failed_tickets

\* success_count += 1
RecordSuccess ==
  /\ success_count' = success_count + 1
  /\ UNCHANGED <<failed_count, failed_tickets>>

\* RecordFailure without the increment of failed_count
RecordFailure_NoCount(t) ==
  /\ failed_tickets' = Append(failed_tickets, t)
  /\ UNCHANGED <<success_count, failed_count>>

\* RecordFailure inserting at the front of the list
RecordFailure_Prepend(t) ==
  /\ failed_count' = failed_count + 1
  /\ failed_tickets' = <<t>> \o failed_tickets
  /\ UNCHANGED success_count

\* failed_count += 1; failed_tickets.append(ticket)
RecordFailure(t) ==
  /\ failed_count' = failed_count + 1
  /\ failed_tickets' = Append(failed_tickets, t)
  /\ UNCHANGED success_count

\* `for ticket in ...`: the list has a next ticket, the body starts
ForNext ==
  /\ pc = "for"
  /\ idx <= Len(PhaseTickets(phase))
  /\ pc' = "get_issue_id"
  /\ UNCHANGED <<patcher_vars, config, phase, idx, canceled_state_id, issue_id, counters, trace,
                 canceled_issues, summary>>

\* EndPhase1 with time.sleep dedented out of the loop body
EndPhase1_Paced ==
  /\ pc = "for"
  /\ phase = 1
  /\ idx > Len(PhaseTickets(phase))
  /\ phase' = 2
  /\ idx' = 1
  /\ trace' = Append(trace, Sleep05)
  /\ UNCHANGED <<patcher_vars, config, pc, canceled_state_id, issue_id, counters, canceled_issues, summary>>

\* the first loop is exhausted: the second loop starts
EndPhase1 ==
  /\ pc = "for"
  /\ phase = 1
  /\ idx > Len(PhaseTickets(phase))
  /\ phase' = 2
  /\ idx' = 1
  /\ UNCHANGED <<patcher_vars, config, pc, canceled_state_id, issue_id, counters, trace,
                 canceled_issues, summary>>

\* the second loop is exhausted: main goes on to the Summary
EndPhase2 ==
  /\ pc = "for"
  /\ phase = 2
  /\ idx > Len(PhaseTickets(phase))
  /\ pc' = "summary"
  /\ UNCHANGED <<patcher_vars, config, phase, idx, canceled_state_id, issue_id, counters, trace,
                 canceled_issues, summary>>

\* what get_issue_id returns for a reply that arrived: None on `errors`
IssueIdFor(r) == IF r.kind = "errors" THEN None ELSE r.id

\* GetIssueId without the `if issue_id:` test: the transition is attempted anyway
GetIssueId_NoNullCheck ==
  /\ pc = "get_issue_id"
  /\ \E r \in IssueReplies(Ticket) :
       /\ trace' = Append(trace, Call("issue", Ticket, None, None, "", r))
       /\ IF r.kind = "throw"
          THEN /\ pc' = "aborted"
               /\ UNCHANGED issue_id
          ELSE /\ issue_id' = IssueIdFor(r)
               /\ pc' = "issueUpdate"
  /\ UNCHANGED <<patcher_vars, config, phase, idx, canceled_state_id, counters, canceled_issues, summary>>

\* issue_id = get_issue_id(ticket), and the else branch of `if issue_id:`
GetIssueId ==
  /\ pc = "get_issue_id"
  /\ \E r \in IssueReplies(Ticket) :
       /\ trace' = Append(trace, Call("issue", Ticket, None, None, "", r))
       /\ IF r.kind = "throw"
          THEN /\ pc' = "aborted"
               /\ UNCHANGED <<issue_id, counters>>
          ELSE /\ issue_id' = IssueIdFor(r)
               /\ IF IssueIdFor(r) # None
                  THEN /\ pc' = "issueUpdate"
                       /\ UNCHANGED counters
                  ELSE /\ RecordFailure(Ticket)
                       /\ pc' = "sleep"
  /\ UNCHANGED <<patcher_vars, config, phase, idx, canceled_state_id, canceled_issues, summary>>

\* StateUpdateSucceeded without the test of the success flag
StateUpdateSucceeded_IgnoresFlag(r) == r.kind = "data"

\* update_issue_state goes on to the comment: no `errors` and success is true
StateUpdateSucceeded(r) == r.kind = "data" /\ r.success

\* IssueUpdate with the arguments of update_issue_state exchanged
IssueUpdate_SwappedArgs ==
  /\ pc = "issueUpdate"
  /\ \E r \in MutationReplies :
       /\ trace' = Append(trace, Call("issueUpdate", Ticket, canceled_state_id, issue_id, "", r))
       /\ IF r.kind = "throw"
          THEN /\ pc' = "aborted"
               /\ UNCHANGED counters
               /\ \/ canceled_issues' = canceled_issues
                  \/ canceled_issues' = canceled_issues \cup {canceled_state_id}
          ELSE IF StateUpdateSucceeded(r)
          THEN /\ pc' = "commentCreate"
               /\ canceled_issues' = canceled_issues \cup {canceled_state_id}
               /\ UNCHANGED counters
          ELSE /\ RecordFailure(Ticket)
               /\ pc' = "sleep"
               /\ UNCHANGED canceled_issues
  /\ UNCHANGED <<patcher_vars, config, phase, idx, canceled_state_id, issue_id, summary>>

\* IssueUpdate posting the mutation again when it did not report success
IssueUpdate_RetriesOnFailure ==
  /\ pc = "issueUpdate"
  /\ \E r \in MutationReplies :
       /\ trace' = Append(trace, Call("issueUpdate", Ticket, issue_id, canceled_state_id, "", r))
       /\ IF r.kind = "throw"
          THEN /\ pc' = "aborted"
               /\ \/ canceled_issues' = canceled_issues
                  \/ canceled_issues' = canceled_issues \cup {issue_id}
          ELSE IF StateUpdateSucceeded(r)
          THEN /\ pc' = "commentCreate"
               /\ canceled_issues' = canceled_issues \cup {issue_id}
          ELSE /\ pc' = "issueUpdate"
               /\ UNCHANGED canceled_issues
  /\ UNCHANGED <<patcher_vars, config, phase, idx, canceled_state_id, issue_id, counters, summary>>

\* update_issue_state, the issueUpdate mutation; a false return is recorded by main
IssueUpdate ==
  /\ pc = "issueUpdate"
  /\ \E r \in MutationReplies :
       /\ trace' = Append(trace, Call("issueUpdate", Ticket, issue_id, canceled_state_id, "", r))
       /\ IF r.kind = "throw"
          THEN /\ pc' = "aborted"
               /\ UNCHANGED counters
               \* the request may have been applied before the connection failed
               /\ \/ canceled_issues' = canceled_issues
                  \/ canceled_issues' = canceled_issues \cup {issue_id}
          ELSE IF StateUpdateSucceeded(r)
          THEN /\ pc' = "commentCreate"
               /\ canceled_issues' = canceled_issues \cup {issue_id}
               /\ UNCHANGED counters
          ELSE /\ RecordFailure(Ticket)
               /\ pc' = "sleep"
               /\ UNCHANGED canceled_issues
  /\ UNCHANGED <<patcher_vars, config, phase, idx, canceled_state_id, issue_id, summary>>

\* comment_data["data"]["commentCreate"]["success"] can be read
CommentReplyReadable(r) == r.kind = "data"

\* update_issue_state, the commentCreate mutation and `return True`, recorded by main
CommentCreate ==
  /\ pc = "commentCreate"
  /\ \E r \in MutationReplies :
       /\ trace' = Append(trace, Call("commentCreate", Ticket, issue_id, None,
                                      PhaseComment(phase), r))
       /\ IF CommentReplyReadable(r)
          THEN /\ RecordSuccess
               /\ pc' = "sleep"
          ELSE /\ pc' = "aborted"
               /\ UNCHANGED counters
  /\ UNCHANGED <<patcher_vars, config, phase, idx, canceled_state_id, issue_id, canceled_issues, summary>>

\* Sleep backing off after an `errors` reply: the wait is doubled
Sleep_BacksOff ==
  /\ pc = "sleep"
  /\ trace' = Append(trace,
                [Sleep05 EXCEPT !.wait = IF trace[Len(trace)].reply.kind = "errors"
                                         THEN 2 * SLEEP_TENTHS ELSE SLEEP_TENTHS])
  /\ idx' = idx + 1
  /\ pc' = "for"
  /\ UNCHANGED <<patcher_vars, config, phase, canceled_state_id, issue_id, counters, canceled_issues,
                 summary>>

\* time.sleep(0.5), the end of the loop body
Sleep ==
  /\ pc = "sleep"
  /\ trace' = Append(trace, Sleep05)
  /\ idx' = idx + 1
  /\ pc' = "for"
  /\ UNCHANGED <<patcher_vars, config, phase, canceled_state_id, issue_id, counters, canceled_issues,
                 summary>>

\* the Summary prints, main returns
Summary ==
  /\ pc = "summary"
  /\ summary' = [printed |-> TRUE, success |-> success_count, failed |-> failed_count,
                 tickets |-> failed_tickets]
  /\ pc' = "done"
  /\ UNCHANGED <<patcher_vars, config, phase, idx, canceled_state_id, issue_id, counters, trace,
                 canceled_issues>>

Next ==
  \/ GetCanceledStateId
  \/ ForNext
  \/ EndPhase1
  \/ EndPhase2
  \/ GetIssueId
  \/ IssueUpdate
  \/ CommentCreate
  \/ Sleep
  \/ Summary

Spec == Init /\ [][Next]_vars

\* every call returns (with a reply or an exception) and the interpreter keeps running
FairSpec == Spec /\ WF_vars(Next)

TypeOK ==
  /\ pc \in {"get_canceled_state_id", "for", "get_issue_id", "issueUpdate", "commentCreate",
             "sleep", "summary", "done", "aborted"}
  /\ phase \in {1, 2}
  /\ idx \in 1..(Len(PhaseTickets(phase)) + 1)
  /\ success_count \in Nat
  /\ failed_count \in Nat

\* ------------------------------------------------- what the trace shows
Range(sq) == { sq[i] : i \in 1..Len(sq) }

Entries(o) == { i \in 1..Len(trace) : trace[i].op = o }

\* the tickets for which get_issue_id returned None: the lookup was answered with `errors`
NullTickets ==
  { trace[i].ticket :
      i \in { j \in 1..Len(trace) : trace[j].op = "issue" /\ trace[j].reply.kind = "errors" } }

\* the tickets whose state mutation was answered and did not report success
FalseTickets ==
  { trace[i].ticket :
      i \in { j \in 1..Len(trace) :
                /\ trace[j].op = "issueUpdate"
                /\ trace[j].reply.kind # "throw"
                /\ ~(trace[j].reply.kind = "data" /\ trace[j].reply.success) } }

\* the tickets for which update_issue_state returned True: the comment reply
\* came back with `data`
TrueTickets ==
  { trace[i].ticket :
      i \in { j \in 1..Len(trace) :
                trace[j].op = "commentCreate" /\ trace[j].reply.kind = "data" } }

\* the tickets a state or comment mutation was issued for
MutatedTickets ==
  { trace[i].ticket :
      i \in { j \in 1..Len(trace) : trace[j].op \in {"issueUpdate", "commentCreate"} } }

ResolvedNull(t) == t \in NullTickets

TransitionFalse(t) == t \in FalseTickets

TransitionTrue(t) == t \in TrueTickets

FailedInTrace(t) == t \in NullTickets \cup FalseTickets

Occurrences(sq, x) == Cardinality({ i \in 1..Len(sq) : sq[i] = x })

\* a per-ticket call that failed: an `errors` reply or an exception
FailedCall(e) ==
  /\ e.op \in {"issue", "issueUpdate", "commentCreate"}
  /\ e.reply.kind \in {"errors", "throw"}

\* a comment mutation that failed in any way
FailedComment(e) ==
  /\ e.op = "commentCreate"
  /\ (e.reply.kind \in {"errors", "throw"} \/ ~e.reply.success)

\* C1: a per-ticket call that returns `errors` or throws never aborts the batch:
\* the ticket is recorded as failed (the verdict is left alone for the comment
\* step) and main goes on to the sleep and the next ticket.
C1_PerTicketErrorNeverAborts ==
  \A i \in 1..Len(trace) :
    FailedCall(trace[i]) =>
      /\ IF i = Len(trace) THEN pc = "sleep" ELSE trace[i + 1].op = "sleep"
      /\ trace[i].op # "commentCreate" => trace[i].ticket \in Range(failed_tickets)

\* C2: when the state mutation succeeded and the comment mutation fails in any
\* way, the ticket is recorded as a success and never as a failure.
C2_CommentFailureStillSuccess ==
  \A i \in 1..Len(trace) :
    FailedComment(trace[i]) =>
      /\ IF i = Len(trace) THEN pc = "sleep" ELSE trace[i + 1].op = "sleep"
      /\ trace[i].ticket \notin Range(failed_tickets)
      /\ success_count = Cardinality(Entries("commentCreate"))

\* C3: success_count + failed_count is the number of tickets whose per-ticket
\* step has completed, and at the Summary it is the number of configured tickets.
C3_CountsSumToCompleted ==
  /\ success_count + failed_count
       = Cardinality(NullTickets \cup FalseTickets \cup TrueTickets)
  /\ pc \in {"summary", "done"} => success_count + failed_count = Len(AllTickets)
  /\ summary.printed => summary.success + summary.failed = Len(AllTickets)

C3_Witness ==
  /\ pc = "done"
  /\ Len(AllTickets) = MaxPhase1 + MaxPhase2
  /\ summary.success >= 1
  /\ summary.failed >= 1

\* C4: every ticket is counted exactly once: a completed ticket adds 1 to
\* exactly one counter, is listed as failed at most once, and is listed iff it
\* was counted as a failure.
C4_CountedExactlyOnce ==
  LET succeeded == TrueTickets
      failed == NullTickets \cup FalseTickets
      listed == Range(failed_tickets)
  IN  /\ success_count = Cardinality(succeeded)
      /\ failed_count = Cardinality(failed)
      /\ failed_count = Len(failed_tickets)
      /\ succeeded \cap failed = {}
      /\ listed = failed
      /\ succeeded \cap listed = {}
      /\ \A t \in Range(AllTickets) : Occurrences(failed_tickets, t) <= 1

C4_Witness ==
  /\ pc = "sleep"
  /\ success_count >= 1
  /\ Len(failed_tickets) >= 2

\* C5: a ticket whose lookup returned None is in failed_tickets, has been
\* counted in failed_count, and no state or comment mutation is issued for it.
C5_NullResolutionFailsWithoutMutation ==
  LET unresolved == NullTickets
  IN  /\ unresolved \subseteq Range(failed_tickets)
      /\ failed_count >= Cardinality(unresolved)
      /\ unresolved \cap MutatedTickets = {}

C5_Witness ==
  /\ pc = "done"
  /\ Len(AllTickets) >= 1
  /\ ResolvedNull(AllTickets[1])
  /\ Entries("issueUpdate") # {}

\* C6: a state mutation answered with `errors` or success=false makes
\* update_issue_state return false without a comment; every comment mutation
\* directly follows a state mutation of the same issue that reported success.
C6_CommentOnlyAfterStateSuccess ==
  /\ \A i \in Entries("commentCreate") :
       /\ i > 1
       /\ trace[i - 1].op = "issueUpdate"
       /\ trace[i - 1].issueId = trace[i].issueId
       /\ trace[i - 1].reply.kind = "data"
       /\ trace[i - 1].reply.success
  /\ FalseTickets \subseteq Range(failed_tickets)
  /\ \A i \in Entries("commentCreate") : trace[i].ticket \notin FalseTickets

C6_Witness ==
  /\ pc = "done"
  /\ Entries("commentCreate") # {}
  /\ FalseTickets # {}

\* the workflow-state lookup found no state of the configured team, or failed
InitFailed ==
  /\ Len(trace) >= 1
  /\ \/ trace[1].reply.kind # "data"
     \/ \A k \in 1..Len(trace[1].reply.nodes) : trace[1].reply.nodes[k].team # TEAM_KEY

\* C7: a failed Init is fatal before any ticket is touched: the run aborts with
\* no issue lookup, no state mutation and no comment mutation, and the counts
\* are zero.
C7_InitFailureAbortsBeforeTickets ==
  InitFailed =>
    /\ pc = "aborted"
    /\ Len(trace) = 1
    /\ Entries("issue") \cup Entries("issueUpdate") \cup Entries("commentCreate") = {}
    /\ canceled_issues = {}
    /\ success_count = 0
    /\ failed_count = 0
    /\ failed_tickets = <<>>
    /\ ~summary.printed

C7_Witness ==
  /\ InitFailed
  /\ trace[1].reply.kind = "data"
  /\ Len(trace[1].reply.nodes) >= 1
  /\ Len(AllTickets) >= 1

\* C8: the Summary reports as failed exactly the tickets whose resolution
\* returned null or whose transition returned false, in processing order, with
\* failed_count their number and success_count the number of transitions that
\* returned true; [T-1, T-2] with T-1 transitioned and T-2 unresolved gives
\* 1 success, 1 failure, failed list [T-2].
C8_SummaryReportsFailuresInOrder ==
  summary.printed =>
    /\ summary.tickets = SelectSeq(AllTickets, FailedInTrace)
    /\ summary.failed = Len(summary.tickets)
    /\ summary.success = Cardinality(TrueTickets)
    /\ (/\ Len(AllTickets) = 2
        /\ TransitionTrue(AllTickets[1])
        /\ ResolvedNull(AllTickets[2]))
         => /\ summary.success = 1
            /\ summary.failed = 1
            /\ summary.tickets = <<AllTickets[2]>>

C8_Witness ==
  /\ summary.printed
  /\ Len(phase1_tickets) = 2
  /\ Len(phase2_tickets) = 0
  /\ TransitionTrue(phase1_tickets[1])
  /\ ResolvedNull(phase1_tickets[2])

\* C9: get_canceled_state_id returns the id of a node of the configured team
\* whatever the order of the nodes, never the id of another team's state, and
\* raises when no node is of the configured team.
C9_StateIdIsOfConfiguredTeam ==
  (Len(trace) >= 1 /\ trace[1].reply.kind = "data") =>
    LET nodes == trace[1].reply.nodes IN
      IF \E k \in 1..Len(nodes) : nodes[k].team = TEAM_KEY
      THEN /\ canceled_state_id # None
           /\ \E k \in 1..Len(nodes) :
                nodes[k].id = canceled_state_id /\ nodes[k].team = TEAM_KEY
           /\ \A k \in 1..Len(nodes) :
                nodes[k].id = canceled_state_id => nodes[k].team = TEAM_KEY
           /\ Len(trace) = 1 => pc # "aborted"
      ELSE /\ canceled_state_id = None
           /\ pc = "aborted"

C9_Witness ==
  /\ Len(trace) >= 1
  /\ trace[1].reply.kind = "data"
  /\ Len(trace[1].reply.nodes) = 2
  /\ trace[1].reply.nodes[1].team # TEAM_KEY
  /\ trace[1].reply.nodes[2].team = TEAM_KEY
  /\ canceled_state_id = trace[1].reply.nodes[2].id

\* C10: a phase whose list is empty issues no network call, does not sleep and
\* leaves the counters and the failed list alone; main goes straight on to the
\* next phase or to the Summary.
C10_EmptyPhaseIsNoOp ==
  [][ (pc = "for" /\ PhaseTickets(phase) = <<>>) =>
        /\ UNCHANGED <<trace, success_count, failed_count, failed_tickets, canceled_issues>>
        /\ \/ phase = 1 /\ phase' = 2 /\ pc' = "for"
           \/ phase = 2 /\ pc' = "summary" ]_vars

C10_Witness ==
  /\ pc = "summary"
  /\ phase1_tickets # <<>>
  /\ phase2_tickets = <<>>
  /\ trace[Len(trace)].op = "sleep"

\* the issue lookups, in the order they were made: the first call of each ticket
Lookups == SelectSeq(trace, LAMBDA e : e.op = "issue")

\* C11: tickets are processed one after the other in configuration order: the
\* calls of the ticket at position k all precede the calls of the ticket at
\* position k+1, and every call of phase 1 precedes every call of phase 2; a
\* call is answered before the next is made.
C11_CallsInConfigurationOrder ==
  LET lookups == Lookups IN
    /\ Len(lookups) <= Len(AllTickets)
    /\ \A k \in 1..Len(lookups) : lookups[k].ticket = AllTickets[k]
    /\ \A k \in 2..Len(trace) :
         /\ trace[k].op \in {"issueUpdate", "commentCreate"} =>
              /\ trace[k - 1].op \in {"issue", "issueUpdate"}
              /\ trace[k - 1].ticket = trace[k].ticket
         /\ trace[k - 1].reply.kind # "throw"

C11_Witness ==
  /\ pc = "done"
  /\ Len(phase1_tickets) = MaxPhase1
  /\ Len(phase2_tickets) = MaxPhase2
  /\ Cardinality(Entries("commentCreate")) = Len(AllTickets)

\* C12: no ticket is retried: a run makes at most one issue lookup, one state
\* mutation and one comment mutation per ticket, and a failed comment is
\* followed by no further mutation of that issue.
C12_NoRetry ==
  /\ \A o \in {"issue", "issueUpdate", "commentCreate"} :
       LET made == Entries(o)
       IN  Cardinality(made) = Cardinality({ trace[k].ticket : k \in made })
  /\ \A i \in Entries("commentCreate") :
       FailedComment(trace[i]) =>
         \A j \in (i + 1)..Len(trace) :
           trace[j].op \in {"issueUpdate", "commentCreate"}
             => trace[j].issueId # trace[i].issueId

C12_Witness ==
  /\ pc = "done"
  /\ \E i \in Entries("commentCreate") :
       /\ FailedComment(trace[i])
       /\ \E j \in (i + 1)..Len(trace) : trace[j].op = "issueUpdate"
  /\ FalseTickets # {}

\* a reply that ends the per-ticket step: the lookup returned None, the
\* transition returned False or the transition returned True
EndsTicketStep(e) ==
  \/ e.op = "issue" /\ e.reply.kind = "errors"
  \/ e.op = "issueUpdate" /\ e.reply.kind # "throw"
       /\ ~(e.reply.kind = "data" /\ e.reply.success)
  \/ e.op = "commentCreate" /\ e.reply.kind = "data"

\* C13: exactly one wait of the fixed length follows each ticket's step,
\* whatever its outcome, and precedes the first call of the next ticket; the
\* wait is not longer after an error reply.
C13_OneFixedWaitPerTicket ==
  \A i \in 1..Len(trace) :
    /\ EndsTicketStep(trace[i]) =>
         IF i = Len(trace) THEN pc = "sleep" ELSE trace[i + 1] = Sleep05
    /\ trace[i].op = "sleep" =>
         /\ i > 1
         /\ EndsTicketStep(trace[i - 1])
         /\ trace[i].wait = SLEEP_TENTHS
    /\ trace[i].op = "issue" =>
         /\ i > 1
         /\ trace[i - 1].op \in {"sleep", "workflowStates"}

C13_Witness ==
  /\ pc = "done"
  /\ NullTickets # {}
  /\ FalseTickets # {}
  /\ TrueTickets # {}
  /\ Cardinality(Entries("sleep")) = Len(AllTickets)

\* C14: the workflow state is resolved once, before any per-ticket call, and
\* every state mutation of both phases carries the id that was resolved.
C14_StateResolvedOnceAndUsed ==
  /\ Entries("workflowStates") = IF trace = <<>> THEN {} ELSE {1}
  /\ \A i \in Entries("issueUpdate") :
       /\ trace[i].stateId = canceled_state_id
       /\ trace[i].stateId # None
       /\ \E k \in 1..Len(trace[1].reply.nodes) :
            /\ trace[1].reply.nodes[k].id = trace[i].stateId
            /\ trace[1].reply.nodes[k].team = TEAM_KEY

C14_Witness ==
  /\ pc = "done"
  /\ \E i, j \in Entries("issueUpdate") :
       /\ trace[i].ticket \in Range(phase1_tickets)
       /\ trace[j].ticket \in Range(phase2_tickets)
  /\ Len(trace[1].reply.nodes) = 2

\* C15: every comment mutation targets the issue id the lookup returned for
\* the ticket in hand and carries the comment text of that ticket's phase.
C15_CommentTargetsResolvedIssue ==
  \A i \in Entries("commentCreate") :
    /\ i > 2
    /\ trace[i - 2].op = "issue"
    /\ trace[i - 2].ticket = trace[i].ticket
    /\ trace[i - 2].reply.kind = "data"
    /\ trace[i].issueId = trace[i - 2].reply.id
    /\ trace[i].issueId # None
    /\ trace[i].body = IF trace[i].ticket \in Range(phase1_tickets)
                       THEN PHASE1_COMMENT ELSE PHASE2_COMMENT
    /\ trace[i].ticket \in Range(phase1_tickets) \cup Range(phase2_tickets)

C15_Witness ==
  /\ pc = "done"
  /\ \E i, j \in Entries("commentCreate") :
       /\ trace[i].body = PHASE1_COMMENT
       /\ trace[j].body = PHASE2_COMMENT

\* C16: a run that passed Init and whose calls were all answered reaches the
\* Summary and the end of main; it never stops short of them.  (A run that
\* has aborted takes no further step, so it never reaches the Summary.)
C16_AnsweredRunReachesSummary ==
  pc = "aborted" =>
    \/ InitFailed
    \/ \E k \in 1..Len(trace) : trace[k].reply.kind = "throw"

\* the issues whose state mutation was answered with success = true
ChangedIssues ==
  { trace[k].issueId :
      k \in { j \in 1..Len(trace) :
                /\ trace[j].op = "issueUpdate"
                /\ trace[j].reply.kind = "data"
                /\ trace[j].reply.success } }

\* C17: no successful transition goes unrecorded: outside the window between
\* the state mutation and the reply to the comment mutation, success_count is
\* the number of issues whose state this run has changed, whatever the reply
\* to the comment mutation was.
C17_SuccessfulTransitionRecorded ==
  pc # "commentCreate" =>
    /\ success_count = Cardinality(ChangedIssues)
    /\ ChangedIssues \subseteq canceled_issues

\* ------------------------------------------------------ fix-null-safety.py
\* A line is kept as what the script reads of it: the array reference that
\* re.match captures in group 2 ("" when the pattern does not match the line)
\* and the set of array references a for which the text
\* `expect(a).toBeDefined()` occurs in the line.
NoMatch == ""

ArrayRefs == {"result.patterns", "result.rootCauses"}

Lines == [match : ArrayRefs \cup {NoMatch}, defined : SUBSET ArrayRefs]

\* the inserted line written as another assertion, which the test of the
\* previous line does not recognise
DefinedLine_Unrecognised(a) == [match |-> NoMatch, defined |-> {}]

\* the line the script inserts, f'{indent}expect({array_ref}).toBeDefined();':
\* the pattern wants `[0]` after the array reference, so it does not match it
DefinedLine(a) == [match |-> NoMatch, defined |-> {a}]

\* f'expect({array_ref}).toBeDefined()' not in lines[i-1], behind `i > 0`
NeedsDefinedLine(k) ==
  /\ lines[k + 1].match # NoMatch
  /\ k > 0
  /\ lines[k + 1].match \notin lines[k].defined

PatchInit ==
  /\ phase1_tickets = <<>>
  /\ phase2_tickets = <<>>
  /\ pc = "idle"
  /\ phase = 1
  /\ idx = 1
  /\ canceled_state_id = None
  /\ issue_id = None
  /\ success_count = 0
  /\ failed_count = 0
  /\ failed_tickets = <<>>
  /\ trace = <<>>
  /\ canceled_issues = {}
  /\ summary = [printed |-> FALSE, success |-> 0, failed |-> 0, tickets |-> <<>>]
  /\ lines \in UNION { [1..n -> Lines] : n \in 0..MaxLines }
  /\ new_lines = <<>>
  /\ line_i = 0
  /\ modified = FALSE
  /\ runs = 0
  /\ ppc = "while"

\* one turn of `while i < len(lines)`
PatchLine ==
  /\ ppc = "while"
  /\ line_i < Len(lines)
  /\ IF NeedsDefinedLine(line_i)
     THEN /\ new_lines' = new_lines \o <<DefinedLine(lines[line_i + 1].match), lines[line_i + 1]>>
          /\ modified' = TRUE
     ELSE /\ new_lines' = Append(new_lines, lines[line_i + 1])
          /\ UNCHANGED modified
  /\ line_i' = line_i + 1
  /\ UNCHANGED <<cleanup_vars, lines, runs, ppc>>

\* the loop is over and `modified` is set: the file is written
PatchWrite ==
  /\ ppc = "while"
  /\ line_i >= Len(lines)
  /\ modified
  /\ lines' = new_lines
  /\ runs' = runs + 1
  /\ ppc' = "exit"
  /\ UNCHANGED <<cleanup_vars, new_lines, line_i, modified>>

\* the loop is over and `modified` is not set: "No changes", the file is left alone
PatchNoChanges ==
  /\ ppc = "while"
  /\ line_i >= Len(lines)
  /\ ~modified
  /\ runs' = runs + 1
  /\ ppc' = "exit"
  /\ UNCHANGED <<cleanup_vars, lines, new_lines, line_i, modified>>

\* the script is started again on the file it left
PatchAgain ==
  /\ ppc = "exit"
  /\ runs < MaxRuns
  /\ new_lines' = <<>>
  /\ line_i' = 0
  /\ modified' = FALSE
  /\ ppc' = "while"
  /\ UNCHANGED <<cleanup_vars, lines, runs>>

PatchNext ==
  \/ PatchLine
  \/ PatchWrite
  \/ PatchNoChanges
  \/ PatchAgain

PatchSpec == PatchInit /\ [][PatchNext]_vars

\* C18: the patcher is idempotent: run on its own output it inserts no
\* further `expect(<array>).toBeDefined();` line, reports no changes and does
\* not rewrite the file, also when matching assertion lines are consecutive.
C18_PatcherIdempotent ==
  (runs >= 1 /\ (ppc = "exit" => runs >= 2)) =>
    /\ ~modified
    /\ new_lines = SubSeq(lines, 1, line_i)
    /\ \A k \in 0..(Len(lines) - 1) : ~NeedsDefinedLine(k)

C18_Witness ==
  /\ runs = 2
  /\ ppc = "exit"
  /\ Len(lines) = MaxLines + 2
  /\ lines[2] = DefinedLine(lines[3].match)
  /\ lines[4] = DefinedLine(lines[5].match)
  /\ lines[3].match = lines[5].match

====
